---- MODULE Spec2Model ----
(***************************************************************************)
(* State-machine model of the staking pallet (src/src/staking.rs) and the  *)
(* governance pallet (src/src/governance.rs).                              *)
(*                                                                         *)
(* Both pallets are single-threaded objects driven by an external caller:  *)
(* every public method is one atomic action.  The two pallets share no     *)
(* state, so each has its own specification (Spec for staking, GovSpec for *)
(* governance).                                                            *)
(***************************************************************************)
EXTENDS Integers, FiniteSets, Sequences, TLC

VARIABLES
    free_balances,    \* StakingPallet.free_balances   : HashMap<AccountId, Balance>
    staked_balances,  \* StakingPallet.staked_balances : HashMap<AccountId, Balance>
    last,             \* the last staking call: its arguments, the two locals it read, its result
    set_log,          \* history: account -> the amount of its most recent set_balance call and
                      \*          the staked balance the account held at that call
    round_trip,       \* history: after an unstake(a, n) that immediately follows a successful
                      \*          stake(a, n), the balances of a before that stake; None otherwise
    proposals,        \* GovernancePallet.proposals : HashMap<u32, Proposal>
    votes,            \* GovernancePallet.votes     : HashMap<(AccountId, u32), bool>
    next_proposal_id, \* GovernancePallet.next_proposal_id : u32
    glast,            \* the last governance call: its arguments and its result
    fin_log           \* history: after a finalize_proposal call that found its proposal, the
                      \*          status the proposal had before the call and, when the call
                      \*          before was a finalize_proposal of the same ID, what that call
                      \*          returned; None after any other call

staking_vars == <<free_balances, staked_balances, last, set_log, round_trip>>
gov_vars == <<proposals, votes, next_proposal_id, glast, fin_log>>
vars == <<free_balances, staked_balances, last, set_log, round_trip,
          proposals, votes, next_proposal_id, glast, fin_log>>

----------------------------------------------------------------------------
(* Bounds *)

\* the accounts of the callers: the two AccountId values the tests use
alice == 1
bob == 2
\* largest representable Balance (stands for the maximum of the Balance type)
MaxBalance == 3
\* create_proposal is called at most this many times in a behaviour
MaxProposals == 2

Accounts == {alice, bob}
Balance == 0..MaxBalance
ProposalIds == 0..MaxProposals
Descriptions == {"d1"}

----------------------------------------------------------------------------
(* Option, Result and HashMap *)

None == <<>>
Some(x) == <<x>>
unwrap(o) == o[1]

Ok == "Ok"
InsufficientFunds == "not enough funds"
Overflow == "overflow"
AlreadyVoted == "You can only vote once"
ProposalNotFound == "Proposal not found"

EmptyMap == [k \in {} |-> 0]
contains_key(m, k) == k \in DOMAIN m
\* variant: the map is replaced by one that holds the new entry only
insert_fresh(m, k, v) == [x \in {k} |-> v]
insert(m, k, v) == [x \in (DOMAIN m) \cup {k} |-> IF x = k THEN v ELSE m[x]]

\* T::Balance::zero()
zero == 0

\* variant: the subtraction also fails when the result is exactly zero
checked_sub_strict(a, b) == IF a - b > zero THEN Some(a - b) ELSE None

\* CheckedSub::checked_sub on an unsigned Balance: None when the result would be negative
checked_sub(a, b) == IF a - b >= zero THEN Some(a - b) ELSE None

\* variant: the addition wraps around instead of failing
checked_add_wrapping(a, b) == Some((a + b) % (MaxBalance + 1))

\* CheckedAdd::checked_add on a bounded Balance: None when the result exceeds the maximum
checked_add(a, b) == IF a + b <= MaxBalance THEN Some(a + b) ELSE None

----------------------------------------------------------------------------
(* StakingPallet *)

get_free_balance(who) ==
    IF contains_key(free_balances, who) THEN free_balances[who] ELSE zero

get_staked_balance(who) ==
    IF contains_key(staked_balances, who) THEN staked_balances[who] ELSE zero

\* the same reads in the successor state
get_free_balance_next(who) ==
    IF contains_key(free_balances', who) THEN free_balances'[who] ELSE zero

get_staked_balance_next(who) ==
    IF contains_key(staked_balances', who) THEN staked_balances'[who] ELSE zero

\* what a staking call leaves behind for the caller: its arguments, the locals
\* data_free_balance and data_staked_balance it read, and its Result
Call(op, who, amount, data_free_balance, data_staked_balance, ret) ==
    [op |-> op, who |-> who, amount |-> amount,
     data_free_balance |-> data_free_balance,
     data_staked_balance |-> data_staked_balance, ret |-> ret]

\* the call being made comes right after a successful stake(who, amount)
FollowsStake(who, amount) ==
    last.op = "stake" /\ last.ret = Ok /\ last.who = who /\ last.amount = amount

StakingNew ==
    /\ free_balances = EmptyMap
    /\ staked_balances = EmptyMap
    /\ last = Call("new", 0, 0, 0, 0, Ok)
    /\ set_log = EmptyMap
    /\ round_trip = None

\* variant: the amount is added to the free balance instead of replacing it
set_balance_adds(who, amount) ==
    /\ free_balances' = insert(free_balances, who, get_free_balance(who) + amount)
    /\ UNCHANGED staked_balances
    /\ last' = Call("set_balance", who, amount, 0, 0, Ok)
    /\ set_log' = insert(set_log, who,
                         [amount |-> amount, staked |-> get_staked_balance(who)])
    /\ round_trip' = None

set_balance(who, amount) ==
    /\ free_balances' = insert(free_balances, who, amount)
    /\ UNCHANGED staked_balances
    /\ last' = Call("set_balance", who, amount, 0, 0, Ok)
    /\ set_log' = insert(set_log, who,
                         [amount |-> amount, staked |-> get_staked_balance(who)])
    /\ round_trip' = None

\* variant: the staked-balance addition is validated before the free-balance subtraction
stake_add_first(who, amount) ==
    LET data_free_balance == get_free_balance(who)
        data_staked_balance == get_staked_balance(who)
        validate_free_balance == checked_sub(data_free_balance, amount)
        validate_staked_balance == checked_add(data_staked_balance, amount)
        result(ret) == Call("stake", who, amount, data_free_balance, data_staked_balance, ret)
    IN  /\ UNCHANGED set_log
        /\ round_trip' = None
        /\ IF validate_staked_balance = None
           THEN /\ last' = result(Overflow)
                /\ UNCHANGED <<free_balances, staked_balances>>
           ELSE IF validate_free_balance = None
           THEN /\ last' = result(InsufficientFunds)
                /\ UNCHANGED <<free_balances, staked_balances>>
           ELSE /\ free_balances' = insert(free_balances, who, unwrap(validate_free_balance))
                /\ staked_balances' = insert(staked_balances, who, unwrap(validate_staked_balance))
                /\ last' = result(Ok)

\* variant: the staked balance is credited but the free balance is not debited
stake_no_debit(who, amount) ==
    LET data_free_balance == get_free_balance(who)
        data_staked_balance == get_staked_balance(who)
        validate_free_balance == checked_sub(data_free_balance, amount)
        validate_staked_balance == checked_add(data_staked_balance, amount)
        result(ret) == Call("stake", who, amount, data_free_balance, data_staked_balance, ret)
    IN  /\ UNCHANGED set_log
        /\ round_trip' = None
        /\ IF validate_free_balance = None
           THEN /\ last' = result(InsufficientFunds)
                /\ UNCHANGED <<free_balances, staked_balances>>
           ELSE IF validate_staked_balance = None
           THEN /\ last' = result(Overflow)
                /\ UNCHANGED <<free_balances, staked_balances>>
           ELSE /\ UNCHANGED free_balances
                /\ staked_balances' = insert(staked_balances, who, unwrap(validate_staked_balance))
                /\ last' = result(Ok)

stake(who, amount) ==
    LET data_free_balance == get_free_balance(who)
        data_staked_balance == get_staked_balance(who)
        validate_free_balance == checked_sub(data_free_balance, amount)
        validate_staked_balance == checked_add(data_staked_balance, amount)
        result(ret) == Call("stake", who, amount, data_free_balance, data_staked_balance, ret)
    IN  /\ UNCHANGED set_log
        /\ round_trip' = None
        /\ IF validate_free_balance = None
           THEN /\ last' = result(InsufficientFunds)
                /\ UNCHANGED <<free_balances, staked_balances>>
           ELSE IF validate_staked_balance = None
           THEN /\ last' = result(Overflow)
                /\ UNCHANGED <<free_balances, staked_balances>>
           ELSE /\ free_balances' = insert(free_balances, who, unwrap(validate_free_balance))
                /\ staked_balances' = insert(staked_balances, who, unwrap(validate_staked_balance))
                /\ last' = result(Ok)

\* variant: the staked balance is debited but the free balance is not credited
unstake_no_credit(who, amount) ==
    LET data_staked_balance == get_staked_balance(who)
        data_free_balance == get_free_balance(who)
        validate_staked_balance == checked_sub(data_staked_balance, amount)
        validate_free_balance == checked_add(data_free_balance, amount)
        result(ret) == Call("unstake", who, amount, data_free_balance, data_staked_balance, ret)
    IN  /\ UNCHANGED set_log
        /\ round_trip' = IF FollowsStake(who, amount)
                         THEN Some([free |-> last.data_free_balance,
                                    staked |-> last.data_staked_balance])
                         ELSE None
        /\ IF validate_staked_balance = None
           THEN /\ last' = result(InsufficientFunds)
                /\ UNCHANGED <<free_balances, staked_balances>>
           ELSE IF validate_free_balance = None
           THEN /\ last' = result("overvlow")
                /\ UNCHANGED <<free_balances, staked_balances>>
           ELSE /\ UNCHANGED free_balances
                /\ staked_balances' = insert(staked_balances, who, unwrap(validate_staked_balance))
                /\ last' = result(Ok)

\* variant: the two validated balances are written to each other's map
unstake_swapped_inserts(who, amount) ==
    LET data_staked_balance == get_staked_balance(who)
        data_free_balance == get_free_balance(who)
        validate_staked_balance == checked_sub(data_staked_balance, amount)
        validate_free_balance == checked_add(data_free_balance, amount)
        result(ret) == Call("unstake", who, amount, data_free_balance, data_staked_balance, ret)
    IN  /\ UNCHANGED set_log
        /\ round_trip' = IF FollowsStake(who, amount)
                         THEN Some([free |-> last.data_free_balance,
                                    staked |-> last.data_staked_balance])
                         ELSE None
        /\ IF validate_staked_balance = None
           THEN /\ last' = result(InsufficientFunds)
                /\ UNCHANGED <<free_balances, staked_balances>>
           ELSE IF validate_free_balance = None
           THEN /\ last' = result("overvlow")
                /\ UNCHANGED <<free_balances, staked_balances>>
           ELSE /\ free_balances' = insert(free_balances, who, unwrap(validate_staked_balance))
                /\ staked_balances' = insert(staked_balances, who, unwrap(validate_free_balance))
                /\ last' = result(Ok)

unstake(who, amount) ==
    LET data_staked_balance == get_staked_balance(who)
        data_free_balance == get_free_balance(who)
        validate_staked_balance == checked_sub(data_staked_balance, amount)
        validate_free_balance == checked_add(data_free_balance, amount)
        result(ret) == Call("unstake", who, amount, data_free_balance, data_staked_balance, ret)
    IN  /\ UNCHANGED set_log
        /\ round_trip' = IF FollowsStake(who, amount)
                         THEN Some([free |-> last.data_free_balance,
                                    staked |-> last.data_staked_balance])
                         ELSE None
        /\ IF validate_staked_balance = None
           THEN /\ last' = result(InsufficientFunds)
                /\ UNCHANGED <<free_balances, staked_balances>>
           ELSE IF validate_free_balance = None
           THEN /\ last' = result("overvlow")
                /\ UNCHANGED <<free_balances, staked_balances>>
           ELSE /\ free_balances' = insert(free_balances, who, unwrap(validate_free_balance))
                /\ staked_balances' = insert(staked_balances, who, unwrap(validate_staked_balance))
                /\ last' = result(Ok)

\* variant: the read goes through an entry that is created when absent
call_get_free_balance_inserting(who) ==
    /\ last' = Call("get_free_balance", who, 0, get_free_balance(who), 0, Ok)
    /\ free_balances' = insert(free_balances, who, get_free_balance(who))
    /\ UNCHANGED <<staked_balances, set_log>>
    /\ round_trip' = None

\* a call of get_free_balance by the caller: the value returned is kept in the
\* data_free_balance field of last
call_get_free_balance(who) ==
    /\ last' = Call("get_free_balance", who, 0, get_free_balance(who), 0, Ok)
    /\ UNCHANGED <<free_balances, staked_balances, set_log>>
    /\ round_trip' = None

\* a call of get_staked_balance by the caller: the value returned is kept in
\* the data_staked_balance field of last
call_get_staked_balance(who) ==
    /\ last' = Call("get_staked_balance", who, 0, 0, get_staked_balance(who), Ok)
    /\ UNCHANGED <<free_balances, staked_balances, set_log>>
    /\ round_trip' = None

SetBalance ==
    /\ \E who \in Accounts, amount \in Balance : set_balance(who, amount)
    /\ UNCHANGED gov_vars
Stake ==
    /\ \E who \in Accounts, amount \in Balance : stake(who, amount)
    /\ UNCHANGED gov_vars
Unstake ==
    /\ \E who \in Accounts, amount \in Balance : unstake(who, amount)
    /\ UNCHANGED gov_vars
GetFreeBalance ==
    /\ \E who \in Accounts : call_get_free_balance(who)
    /\ UNCHANGED gov_vars
GetStakedBalance ==
    /\ \E who \in Accounts : call_get_staked_balance(who)
    /\ UNCHANGED gov_vars

----------------------------------------------------------------------------
(* GovernancePallet *)

Active == "Active"
Approved == "Approved"
Rejected == "Rejected"

\* what a governance call leaves behind for the caller: its arguments and its
\* Result (ret is Ok or the error text, value the payload of Ok)
GovCall(op, who, proposal_id, vote_type, ret, value) ==
    [op |-> op, who |-> who, proposal_id |-> proposal_id,
     vote_type |-> vote_type, ret |-> ret, value |-> value]

GovernanceNew ==
    /\ proposals = EmptyMap
    /\ votes = EmptyMap
    /\ next_proposal_id = 0
    /\ glast = GovCall("new", 0, 0, FALSE, Ok, None)
    /\ fin_log = None

\* variant: the ID is read after the counter was incremented
create_proposal_increment_first(creator, description) ==
    LET proposal_id == next_proposal_id + 1
    IN  /\ next_proposal_id' = next_proposal_id + 1
        /\ proposals' = insert(proposals, proposal_id,
                               [description |-> description, yes_votes |-> 0,
                                no_votes |-> 0, status |-> Active])
        /\ UNCHANGED votes
        /\ glast' = GovCall("create_proposal", creator, proposal_id, FALSE,
                            Ok, Some(proposal_id))

create_proposal(creator, description) ==
    LET proposal_id == next_proposal_id
    IN  /\ next_proposal_id' = next_proposal_id + 1
        /\ proposals' = insert(proposals, proposal_id,
                               [description |-> description, yes_votes |-> 0,
                                no_votes |-> 0, status |-> Active])
        /\ UNCHANGED votes
        /\ glast' = GovCall("create_proposal", creator, proposal_id, FALSE,
                            Ok, Some(proposal_id))

\* variant: the already-voted check is missing
vote_on_proposal_no_guard(voter, proposal_id, vote_type) ==
    IF contains_key(proposals, proposal_id)
    THEN /\ votes' = insert(votes, <<voter, proposal_id>>, vote_type)
         /\ proposals' =
                IF vote_type
                THEN [proposals EXCEPT ![proposal_id].yes_votes = @ + 1]
                ELSE [proposals EXCEPT ![proposal_id].no_votes = @ + 1]
         /\ UNCHANGED next_proposal_id
         /\ glast' = GovCall("vote_on_proposal", voter, proposal_id, vote_type,
                             Ok, None)
    ELSE /\ glast' = GovCall("vote_on_proposal", voter, proposal_id, vote_type,
                             ProposalNotFound, None)
         /\ UNCHANGED <<proposals, votes, next_proposal_id>>

\* variant: a no vote is counted as a yes vote
vote_on_proposal_yes_only(voter, proposal_id, vote_type) ==
    IF contains_key(votes, <<voter, proposal_id>>)
    THEN /\ glast' = GovCall("vote_on_proposal", voter, proposal_id, vote_type,
                             AlreadyVoted, None)
         /\ UNCHANGED <<proposals, votes, next_proposal_id>>
    ELSE IF contains_key(proposals, proposal_id)
    THEN /\ votes' = insert(votes, <<voter, proposal_id>>, vote_type)
         /\ proposals' =
                IF vote_type
                THEN [proposals EXCEPT ![proposal_id].yes_votes = @ + 1]
                ELSE [proposals EXCEPT ![proposal_id].yes_votes = @ + 1]
         /\ UNCHANGED next_proposal_id
         /\ glast' = GovCall("vote_on_proposal", voter, proposal_id, vote_type,
                             Ok, None)
    ELSE /\ glast' = GovCall("vote_on_proposal", voter, proposal_id, vote_type,
                             ProposalNotFound, None)
         /\ UNCHANGED <<proposals, votes, next_proposal_id>>

\* variant: the vote is recorded before the proposal is looked up
vote_on_proposal_insert_first(voter, proposal_id, vote_type) ==
    IF contains_key(votes, <<voter, proposal_id>>)
    THEN /\ glast' = GovCall("vote_on_proposal", voter, proposal_id, vote_type,
                             AlreadyVoted, None)
         /\ UNCHANGED <<proposals, votes, next_proposal_id>>
    ELSE IF contains_key(proposals, proposal_id)
    THEN /\ votes' = insert(votes, <<voter, proposal_id>>, vote_type)
         /\ proposals' =
                IF vote_type
                THEN [proposals EXCEPT ![proposal_id].yes_votes = @ + 1]
                ELSE [proposals EXCEPT ![proposal_id].no_votes = @ + 1]
         /\ UNCHANGED next_proposal_id
         /\ glast' = GovCall("vote_on_proposal", voter, proposal_id, vote_type,
                             Ok, None)
    ELSE /\ votes' = insert(votes, <<voter, proposal_id>>, vote_type)
         /\ glast' = GovCall("vote_on_proposal", voter, proposal_id, vote_type,
                             ProposalNotFound, None)
         /\ UNCHANGED <<proposals, next_proposal_id>>

\* variant: a yes vote increments the no counter as well
vote_on_proposal_both_counters(voter, proposal_id, vote_type) ==
    IF contains_key(votes, <<voter, proposal_id>>)
    THEN /\ glast' = GovCall("vote_on_proposal", voter, proposal_id, vote_type,
                             AlreadyVoted, None)
         /\ UNCHANGED <<proposals, votes, next_proposal_id>>
    ELSE IF contains_key(proposals, proposal_id)
    THEN /\ votes' = insert(votes, <<voter, proposal_id>>, vote_type)
         /\ proposals' =
                IF vote_type
                THEN [proposals EXCEPT ![proposal_id].yes_votes = @ + 1,
                                       ![proposal_id].no_votes = @ + 1]
                ELSE [proposals EXCEPT ![proposal_id].no_votes = @ + 1]
         /\ UNCHANGED next_proposal_id
         /\ glast' = GovCall("vote_on_proposal", voter, proposal_id, vote_type,
                             Ok, None)
    ELSE /\ glast' = GovCall("vote_on_proposal", voter, proposal_id, vote_type,
                             ProposalNotFound, None)
         /\ UNCHANGED <<proposals, votes, next_proposal_id>>

\* variant: a vote on a proposal that is no longer Active is refused
vote_on_proposal_active_only(voter, proposal_id, vote_type) ==
    IF contains_key(votes, <<voter, proposal_id>>)
    THEN /\ glast' = GovCall("vote_on_proposal", voter, proposal_id, vote_type,
                             AlreadyVoted, None)
         /\ UNCHANGED <<proposals, votes, next_proposal_id>>
    ELSE IF contains_key(proposals, proposal_id) /\ proposals[proposal_id].status # Active
    THEN /\ glast' = GovCall("vote_on_proposal", voter, proposal_id, vote_type,
                             "Proposal not active", None)
         /\ UNCHANGED <<proposals, votes, next_proposal_id>>
    ELSE IF contains_key(proposals, proposal_id)
    THEN /\ votes' = insert(votes, <<voter, proposal_id>>, vote_type)
         /\ proposals' =
                IF vote_type
                THEN [proposals EXCEPT ![proposal_id].yes_votes = @ + 1]
                ELSE [proposals EXCEPT ![proposal_id].no_votes = @ + 1]
         /\ UNCHANGED next_proposal_id
         /\ glast' = GovCall("vote_on_proposal", voter, proposal_id, vote_type,
                             Ok, None)
    ELSE /\ glast' = GovCall("vote_on_proposal", voter, proposal_id, vote_type,
                             ProposalNotFound, None)
         /\ UNCHANGED <<proposals, votes, next_proposal_id>>

\* variant: a vote makes the proposal Active again
vote_on_proposal_reopens(voter, proposal_id, vote_type) ==
    IF contains_key(votes, <<voter, proposal_id>>)
    THEN /\ glast' = GovCall("vote_on_proposal", voter, proposal_id, vote_type,
                             AlreadyVoted, None)
         /\ UNCHANGED <<proposals, votes, next_proposal_id>>
    ELSE IF contains_key(proposals, proposal_id)
    THEN /\ votes' = insert(votes, <<voter, proposal_id>>, vote_type)
         /\ proposals' =
                IF vote_type
                THEN [proposals EXCEPT ![proposal_id].yes_votes = @ + 1,
                                       ![proposal_id].status = Active]
                ELSE [proposals EXCEPT ![proposal_id].no_votes = @ + 1,
                                       ![proposal_id].status = Active]
         /\ UNCHANGED next_proposal_id
         /\ glast' = GovCall("vote_on_proposal", voter, proposal_id, vote_type,
                             Ok, None)
    ELSE /\ glast' = GovCall("vote_on_proposal", voter, proposal_id, vote_type,
                             ProposalNotFound, None)
         /\ UNCHANGED <<proposals, votes, next_proposal_id>>

vote_on_proposal(voter, proposal_id, vote_type) ==
    IF contains_key(votes, <<voter, proposal_id>>)
    THEN /\ glast' = GovCall("vote_on_proposal", voter, proposal_id, vote_type,
                             AlreadyVoted, None)
         /\ UNCHANGED <<proposals, votes, next_proposal_id>>
    ELSE IF contains_key(proposals, proposal_id)
    THEN /\ votes' = insert(votes, <<voter, proposal_id>>, vote_type)
         /\ proposals' =
                IF vote_type
                THEN [proposals EXCEPT ![proposal_id].yes_votes = @ + 1]
                ELSE [proposals EXCEPT ![proposal_id].no_votes = @ + 1]
         /\ UNCHANGED next_proposal_id
         /\ glast' = GovCall("vote_on_proposal", voter, proposal_id, vote_type,
                             Ok, None)
    ELSE /\ glast' = GovCall("vote_on_proposal", voter, proposal_id, vote_type,
                             ProposalNotFound, None)
         /\ UNCHANGED <<proposals, votes, next_proposal_id>>

\* variant: a tie is resolved to Approved
finalize_proposal_tie_approves(proposal_id) ==
    IF contains_key(proposals, proposal_id)
    THEN LET proposal == proposals[proposal_id]
             status == IF proposal.yes_votes >= proposal.no_votes
                       THEN Approved ELSE Rejected
         IN  /\ proposals' = [proposals EXCEPT ![proposal_id].status = status]
             /\ UNCHANGED <<votes, next_proposal_id>>
             /\ glast' = GovCall("finalize_proposal", 0, proposal_id, FALSE,
                                 Ok, Some(status))
    ELSE /\ glast' = GovCall("finalize_proposal", 0, proposal_id, FALSE,
                             ProposalNotFound, None)
         /\ UNCHANGED <<proposals, votes, next_proposal_id>>

\* variant: finalizing resets the vote counters of the proposal
finalize_proposal_clears_votes(proposal_id) ==
    IF contains_key(proposals, proposal_id)
    THEN LET proposal == proposals[proposal_id]
             status == IF proposal.yes_votes > proposal.no_votes
                       THEN Approved ELSE Rejected
         IN  /\ proposals' = [proposals EXCEPT ![proposal_id].status = status,
                                              ![proposal_id].yes_votes = 0,
                                              ![proposal_id].no_votes = 0]
             /\ UNCHANGED <<votes, next_proposal_id>>
             /\ glast' = GovCall("finalize_proposal", 0, proposal_id, FALSE,
                                 Ok, Some(status))
    ELSE /\ glast' = GovCall("finalize_proposal", 0, proposal_id, FALSE,
                             ProposalNotFound, None)
         /\ UNCHANGED <<proposals, votes, next_proposal_id>>

finalize_proposal(proposal_id) ==
    IF contains_key(proposals, proposal_id)
    THEN LET proposal == proposals[proposal_id]
             status == IF proposal.yes_votes > proposal.no_votes
                       THEN Approved ELSE Rejected
         IN  /\ proposals' = [proposals EXCEPT ![proposal_id].status = status]
             /\ UNCHANGED <<votes, next_proposal_id>>
             /\ glast' = GovCall("finalize_proposal", 0, proposal_id, FALSE,
                                 Ok, Some(status))
    ELSE /\ glast' = GovCall("finalize_proposal", 0, proposal_id, FALSE,
                             ProposalNotFound, None)
         /\ UNCHANGED <<proposals, votes, next_proposal_id>>

\* the history entry of a finalize_proposal(proposal_id) call made now
FinLog(proposal_id) ==
    IF contains_key(proposals, proposal_id)
    THEN Some([status_before |-> proposals[proposal_id].status,
               prev |-> IF /\ glast.op = "finalize_proposal" /\ glast.ret = Ok
                           /\ glast.proposal_id = proposal_id
                        THEN glast.value ELSE None])
    ELSE None

CreateProposal ==
    /\ next_proposal_id < MaxProposals
    /\ \E creator \in Accounts, description \in Descriptions :
           create_proposal(creator, description)
    /\ fin_log' = None
    /\ UNCHANGED staking_vars
VoteOnProposal ==
    /\ \E voter \in Accounts, proposal_id \in ProposalIds, vote_type \in BOOLEAN :
           vote_on_proposal(voter, proposal_id, vote_type)
    /\ fin_log' = None
    /\ UNCHANGED staking_vars
FinalizeProposal ==
    /\ \E proposal_id \in ProposalIds :
           finalize_proposal(proposal_id) /\ fin_log' = FinLog(proposal_id)
    /\ UNCHANGED staking_vars

----------------------------------------------------------------------------
(* Specifications *)

Init == StakingNew /\ GovernanceNew

Next == SetBalance \/ Stake \/ Unstake \/ GetFreeBalance \/ GetStakedBalance
GovNext == CreateProposal \/ VoteOnProposal \/ FinalizeProposal

\* the staking pallet under an arbitrary caller
Spec == Init /\ [][Next]_vars
\* the governance pallet under an arbitrary caller
GovSpec == Init /\ [][GovNext]_vars

----------------------------------------------------------------------------
(* Properties of the staking pallet (checked under Spec) *)

\* the account's free and staked balance summed
Total(a) == get_free_balance(a) + get_staked_balance(a)

\* C1 as stated: after a successful stake or unstake on an account that
\* set_balance was called on, the free and the staked balance of the account
\* sum to the amount of the most recent set_balance call on it.
C1_ConservationAsStated ==
    (last.op \in {"stake", "unstake"} /\ last.ret = Ok /\ last.who \in DOMAIN set_log)
    => Total(last.who) = set_log[last.who].amount

\* C1 amended: once set_balance was called on an account, its free and staked
\* balance sum, in every later state, to the amount of the most recent
\* set_balance call on it plus the staked balance the account held when that
\* call was made: set_balance overwrites the free balance only, stake and
\* unstake move funds between the two balances without creating or destroying
\* any.
C1_Conservation ==
    \A a \in DOMAIN set_log : Total(a) = set_log[a].amount + set_log[a].staked

\* a successful unstake of a non-zero amount on an account whose most recent
\* set_balance call set a non-zero amount while funds were staked
C1_Witness ==
    /\ last.op = "unstake" /\ last.ret = Ok /\ last.amount > 0
    /\ last.who \in DOMAIN set_log
    /\ set_log[last.who].staked > 0
    /\ set_log[last.who].amount > 0

\* C2: a stake(a, n) call with n above the free balance of a returns
\* InsufficientFunds (also when the staked-balance addition would overflow too)
\* and leaves the free and the staked balance of a as they were.
C2_UnderflowRejection ==
    [][ (last'.op = "stake" /\ last'.amount > get_free_balance(last'.who))
        => /\ last'.ret = InsufficientFunds
           /\ get_free_balance_next(last'.who) = get_free_balance(last'.who)
           /\ get_staked_balance_next(last'.who) = get_staked_balance(last'.who)
      ]_vars

\* a rejected stake whose amount exceeds the free balance and would also have
\* overflowed the staked balance
C2_Witness ==
    /\ last.op = "stake" /\ last.ret = InsufficientFunds
    /\ last.amount > last.data_free_balance
    /\ last.data_staked_balance + last.amount > MaxBalance

\* C6: stake(a, n) succeeds exactly when free - n does not underflow and
\* staked + n does not overflow, and then free becomes free - n and staked
\* becomes staked + n; unstake(a, n) succeeds exactly when staked - n does not
\* underflow and free + n does not overflow, and then staked becomes staked - n
\* and free becomes free + n.  Absent entries read as zero.
C6_StakeUnstakeEffect ==
    [][ LET a == last'.who
            n == last'.amount
            free == get_free_balance(a)
            staked == get_staked_balance(a)
        IN  /\ last'.op = "stake" =>
                /\ last'.ret = Ok <=> (free - n >= 0 /\ staked + n <= MaxBalance)
                /\ last'.ret = Ok =>
                     /\ get_free_balance_next(a) = free - n
                     /\ get_staked_balance_next(a) = staked + n
            /\ last'.op = "unstake" =>
                /\ last'.ret = Ok <=> (staked - n >= 0 /\ free + n <= MaxBalance)
                /\ last'.ret = Ok =>
                     /\ get_free_balance_next(a) = free + n
                     /\ get_staked_balance_next(a) = staked - n
      ]_vars

\* a successful stake of the whole, non-zero free balance of an account with
\* nothing staked before
C6_Witness ==
    /\ last.op = "stake" /\ last.ret = Ok
    /\ last.amount > 0 /\ last.amount = last.data_free_balance
    /\ last.data_staked_balance = 0
    /\ get_free_balance(last.who) = 0
    /\ get_staked_balance(last.who) = last.amount

\* C7: an unstake(a, n) that immediately follows a successful stake(a, n)
\* succeeds unless its free-balance addition fails, and when it succeeds the
\* free and the staked balance of a are the ones from before the stake.
C7_RoundTrip ==
    (last.op = "unstake" /\ round_trip # None)
    => /\ last.ret = Ok \/ last.data_free_balance + last.amount > MaxBalance
       /\ last.ret = Ok =>
            /\ get_free_balance(last.who) = unwrap(round_trip).free
            /\ get_staked_balance(last.who) = unwrap(round_trip).staked

\* a successful unstake of a non-zero amount right after a successful stake of
\* the same amount on the same account, which already had funds staked
C7_Witness ==
    /\ last.op = "unstake" /\ round_trip # None
    /\ last.ret = Ok /\ last.amount > 0
    /\ unwrap(round_trip).staked > 0

\* C8: unstake(a, n) returns InsufficientFunds when the staked balance of a is
\* below n, returns Overflow when the staked balance suffices but free + n
\* exceeds the largest Balance, and in both cases changes neither map.
C8_UnstakeErrors ==
    [][ last'.op = "unstake" =>
        LET a == last'.who
            n == last'.amount
            free == get_free_balance(a)
            staked == get_staked_balance(a)
        IN  /\ staked < n =>
                /\ last'.ret = InsufficientFunds
                /\ UNCHANGED <<free_balances, staked_balances>>
            /\ (staked >= n /\ free + n > MaxBalance) =>
                /\ last'.ret = Overflow
                /\ UNCHANGED <<free_balances, staked_balances>>
      ]_vars

\* every balance stored in either map is a representable Balance
BalancesInRange ==
    /\ \A a \in DOMAIN free_balances : free_balances[a] \in Balance
    /\ \A a \in DOMAIN staked_balances : staked_balances[a] \in Balance

\* C9: stake(a, n) with n within the free balance and staked + n above the
\* largest Balance returns Overflow and changes neither map; a stake that
\* succeeds stores exactly staked + n, so no stored balance is ever a
\* wrapped-around sum.
C9_StakeOverflowGuard ==
    /\ []BalancesInRange
    /\ [][ last'.op = "stake" =>
           LET a == last'.who
               n == last'.amount
               free == get_free_balance(a)
               staked == get_staked_balance(a)
           IN  /\ (n <= free /\ staked + n > MaxBalance) =>
                   /\ last'.ret = Overflow
                   /\ UNCHANGED <<free_balances, staked_balances>>
               /\ last'.ret = Ok => get_staked_balance_next(a) = staked + n
         ]_vars

\* a stake rejected with Overflow although the free balance covers the amount
C9_Witness ==
    /\ last.op = "stake" /\ last.ret = Overflow
    /\ last.amount <= last.data_free_balance
    /\ last.data_staked_balance + last.amount > MaxBalance
    /\ get_free_balance(last.who) = last.data_free_balance
    /\ get_staked_balance(last.who) = last.data_staked_balance

----------------------------------------------------------------------------
(* Properties of the governance pallet (checked under GovSpec) *)

\* the keys of votes that belong to one proposal
VotesOn(id) == {k \in DOMAIN votes : k[2] = id}

\* C3: a recorded vote stays recorded with its choice, a successful
\* vote_on_proposal records one, and a vote_on_proposal call by an account that
\* already has a vote recorded for the proposal returns AlreadyVoted, whatever
\* the choice, and changes neither the proposals (their counts) nor the votes.
C3_VoteUniqueness ==
    [][ /\ \A k \in DOMAIN votes : k \in DOMAIN votes' /\ votes'[k] = votes[k]
        /\ (glast'.op = "vote_on_proposal" /\ glast'.ret = Ok)
           => <<glast'.who, glast'.proposal_id>> \in DOMAIN votes'
        /\ (/\ glast'.op = "vote_on_proposal"
            /\ <<glast'.who, glast'.proposal_id>> \in DOMAIN votes)
           => /\ glast'.ret = AlreadyVoted
              /\ UNCHANGED <<proposals, votes>>
      ]_vars

\* a second vote by the same account on the same proposal, with the opposite
\* choice, was rejected
C3_Witness ==
    /\ glast.op = "vote_on_proposal" /\ glast.ret = AlreadyVoted
    /\ <<glast.who, glast.proposal_id>> \in DOMAIN votes
    /\ votes[<<glast.who, glast.proposal_id>>] # glast.vote_type

C5_MajorityResolution ==
    [][ (glast'.op = "finalize_proposal" /\ glast'.proposal_id \in DOMAIN proposals)
        => LET id == glast'.proposal_id
               yes == proposals[id].yes_votes
               no == proposals[id].no_votes
           IN  /\ glast'.ret = Ok
               /\ glast'.value = Some(proposals'[id].status)
               /\ proposals'[id].status = Approved <=> yes > no
               /\ proposals'[id].status = Rejected <=> ~(yes > no)
      ]_vars

\* a proposal with as many yes votes as no votes, at least one each, was
\* finalized as Rejected
C5_Witness ==
    /\ glast.op = "finalize_proposal" /\ glast.ret = Ok
    /\ glast.value = Some(Rejected)
    /\ proposals[glast.proposal_id].yes_votes = proposals[glast.proposal_id].no_votes
    /\ proposals[glast.proposal_id].yes_votes >= 1

\* C10: vote_on_proposal and finalize_proposal with an ID that no proposal has
\* return ProposalNotFound and leave proposals, votes and next_proposal_id as
\* they were.
C10_ProposalNotFound ==
    [][ (/\ glast'.op \in {"vote_on_proposal", "finalize_proposal"}
         /\ glast'.proposal_id \notin DOMAIN proposals)
        => /\ glast'.ret = ProposalNotFound
           /\ UNCHANGED <<proposals, votes, next_proposal_id>>
      ]_vars

\* a vote on a missing proposal ID was rejected, while another proposal
\* exists and has votes, and no vote is recorded for the missing ID
C10_Witness ==
    /\ glast.op = "vote_on_proposal" /\ glast.ret = ProposalNotFound
    /\ glast.proposal_id \notin DOMAIN proposals
    /\ votes # EmptyMap
    /\ VotesOn(glast.proposal_id) = {}


C12_VoteFrame ==
    [][ (glast'.op = "vote_on_proposal" /\ glast'.ret = Ok) =>
        LET id == glast'.proposal_id
            key == <<glast'.who, id>>
            choice == glast'.vote_type
        IN  /\ key \notin DOMAIN votes
            /\ DOMAIN votes' = DOMAIN votes \cup {key}
            /\ votes'[key] = choice
            /\ \A k \in DOMAIN votes : votes'[k] = votes[k]
            /\ id \in DOMAIN proposals
            /\ DOMAIN proposals' = DOMAIN proposals
            /\ proposals'[id].yes_votes
                   = proposals[id].yes_votes + (IF choice THEN 1 ELSE 0)
            /\ proposals'[id].no_votes
                   = proposals[id].no_votes + (IF choice THEN 0 ELSE 1)
            /\ proposals'[id].status = proposals[id].status
            /\ proposals'[id].description = proposals[id].description
            /\ \A p \in DOMAIN proposals \ {id} : proposals'[p] = proposals[p]
            /\ UNCHANGED next_proposal_id
      ]_vars

\* a successful yes vote on a proposal that already had a no vote, while
\* another proposal has a vote of its own
C12_Witness ==
    /\ glast.op = "vote_on_proposal" /\ glast.ret = Ok /\ glast.vote_type
    /\ proposals[glast.proposal_id].yes_votes = 1
    /\ proposals[glast.proposal_id].no_votes = 1
    /\ \E p \in DOMAIN proposals \ {glast.proposal_id} : VotesOn(p) # {}


----------------------------------------------------------------------------
(* Further properties of the staking pallet (checked under Spec) *)

\* the entry of account a, present or absent, is the same in map m and map n
SameEntry(m, n, a) ==
    /\ a \in DOMAIN m <=> a \in DOMAIN n
    /\ a \in DOMAIN m => m[a] = n[a]

\* C13: set_balance(a, x) succeeds and makes the free balance of a exactly x,
\* whatever it was; it leaves the free-balance entry of every other account
\* and the whole staked_balances map as they were.
C13_SetBalanceFrame ==
    [][ last'.op = "set_balance" =>
        /\ last'.ret = Ok
        /\ last'.who \in DOMAIN free_balances'
        /\ free_balances'[last'.who] = last'.amount
        /\ \A b \in Accounts \ {last'.who} :
               SameEntry(free_balances, free_balances', b)
        /\ UNCHANGED staked_balances
      ]_vars

\* set_balance put a non-zero amount on an account that has funds staked,
\* while the other account has a free and a staked balance of its own
C13_Witness ==
    /\ last.op = "set_balance" /\ last.amount > 0
    /\ get_free_balance(last.who) = last.amount
    /\ get_staked_balance(last.who) > 0
    /\ \E b \in Accounts \ {last.who} :
           get_free_balance(b) > 0 /\ get_staked_balance(b) > 0


\* C16: get_free_balance and get_staked_balance succeed, return the value
\* stored for the account in their map, or zero when the map has no entry for
\* it, and change neither map (no entry is created).
C16_Getters ==
    [][ /\ last'.op = "get_free_balance" =>
            /\ last'.ret = Ok
            /\ last'.data_free_balance
                   = IF last'.who \in DOMAIN free_balances
                     THEN free_balances[last'.who] ELSE 0
            /\ UNCHANGED <<free_balances, staked_balances>>
        /\ last'.op = "get_staked_balance" =>
            /\ last'.ret = Ok
            /\ last'.data_staked_balance
                   = IF last'.who \in DOMAIN staked_balances
                     THEN staked_balances[last'.who] ELSE 0
            /\ UNCHANGED <<free_balances, staked_balances>>
      ]_vars

\* get_free_balance returned zero for an account without an entry, which
\* still has none, while the other account has a non-zero free balance
C16_Witness ==
    /\ last.op = "get_free_balance" /\ last.data_free_balance = 0
    /\ last.who \notin DOMAIN free_balances
    /\ \E b \in DOMAIN free_balances : free_balances[b] > 0

\* the account's free and staked balance summed, in the successor state
Total_next(a) == get_free_balance_next(a) + get_staked_balance_next(a)

\* C17: a stake or unstake call on account a, successful or not, leaves
\* free_balance(a) + staked_balance(a) as it was; the sum of an account
\* changes only in a set_balance call on that account.
C17_PureTransfer ==
    [][ /\ last'.op \in {"stake", "unstake"}
           => Total_next(last'.who) = Total(last'.who)
        /\ \A a \in Accounts :
               Total_next(a) # Total(a)
               => last'.op = "set_balance" /\ last'.who = a
      ]_vars

\* a successful unstake of a non-zero amount: both balances of the account
\* changed, their sum is what the call read
C17_Witness ==
    /\ last.op = "unstake" /\ last.ret = Ok /\ last.amount > 0
    /\ get_free_balance(last.who) # last.data_free_balance
    /\ get_staked_balance(last.who) # last.data_staked_balance
    /\ Total(last.who) = last.data_free_balance + last.data_staked_balance

\* C20: a stake or unstake call on account a, successful or not, leaves the
\* entries of every other account in free_balances and in staked_balances as
\* they were.
C20_OtherAccountsUntouched ==
    [][ last'.op \in {"stake", "unstake"} =>
        \A b \in Accounts \ {last'.who} :
            /\ SameEntry(free_balances, free_balances', b)
            /\ SameEntry(staked_balances, staked_balances', b)
      ]_vars

\* a successful stake of a non-zero amount on one account while the other
\* account has a non-zero free and a non-zero staked balance
C20_Witness ==
    /\ last.op = "stake" /\ last.ret = Ok /\ last.amount > 0
    /\ \E b \in Accounts \ {last.who} :
           /\ b \in DOMAIN free_balances /\ free_balances[b] > 0
           /\ b \in DOMAIN staked_balances /\ staked_balances[b] > 0

----------------------------------------------------------------------------
(* Further properties of the governance pallet (checked under GovSpec) *)

\* C14: a finalize_proposal(id) call that comes right after a successful
\* finalize_proposal(id) returns what that call returned and changes nothing
\* in proposals, votes and next_proposal_id.
C14_FinalizeIdempotent ==
    [][ (fin_log' # None /\ unwrap(fin_log').prev # None) =>
        /\ glast'.op = "finalize_proposal"
        /\ glast'.ret = Ok
        /\ glast'.value = unwrap(fin_log').prev
        /\ UNCHANGED <<proposals, votes, next_proposal_id>>
      ]_vars

\* a proposal with more yes than no votes was finalized twice in a row and
\* is Approved
C14_Witness ==
    /\ glast.op = "finalize_proposal" /\ glast.ret = Ok
    /\ fin_log # None /\ unwrap(fin_log).prev = Some(Approved)
    /\ unwrap(fin_log).status_before = Approved
    /\ glast.value = Some(Approved)
    /\ proposals[glast.proposal_id].status = Approved
    /\ proposals[glast.proposal_id].yes_votes > proposals[glast.proposal_id].no_votes


\* C15: a vote_on_proposal call on an Approved or Rejected proposal by an
\* account that has no vote on it succeeds, records the vote and increments
\* the matching counter, as on an Active proposal; a finalize_proposal call on
\* an Approved or Rejected proposal stores the status that the counters give
\* at that call.  (That the status does change between Approved and Rejected
\* this way is what the witness shows.)
C15_PermissiveAfterFinalize ==
    [][ LET id == glast'.proposal_id
            key == <<glast'.who, id>>
            choice == glast'.vote_type
            finalized == /\ id \in DOMAIN proposals
                         /\ proposals[id].status \in {Approved, Rejected}
        IN  /\ (glast'.op = "vote_on_proposal" /\ finalized /\ key \notin DOMAIN votes)
               => /\ glast'.ret = Ok
                  /\ key \in DOMAIN votes' /\ votes'[key] = choice
                  /\ proposals'[id].yes_votes
                         = proposals[id].yes_votes + (IF choice THEN 1 ELSE 0)
                  /\ proposals'[id].no_votes
                         = proposals[id].no_votes + (IF choice THEN 0 ELSE 1)
                  /\ proposals'[id].status = proposals[id].status
            /\ (glast'.op = "finalize_proposal" /\ finalized)
               => /\ glast'.ret = Ok
                  /\ proposals'[id].status
                         = IF proposals[id].yes_votes > proposals[id].no_votes
                           THEN Approved ELSE Rejected
      ]_vars

\* a proposal that was Rejected, then voted on, was finalized again and is
\* now Approved
C15_Witness ==
    /\ glast.op = "finalize_proposal" /\ glast.ret = Ok
    /\ fin_log # None /\ unwrap(fin_log).status_before = Rejected
    /\ proposals[glast.proposal_id].status = Approved
    /\ glast.value = Some(Approved)

\* the opposite change: a proposal that was Approved is Rejected after a
\* further vote and finalization
C15_ApprovedToRejected ==
    /\ glast.op = "finalize_proposal" /\ glast.ret = Ok
    /\ fin_log # None /\ unwrap(fin_log).status_before = Approved
    /\ proposals[glast.proposal_id].status = Rejected


C19_ActiveUntilFinalized ==
    [][ /\ \A id \in DOMAIN proposals' \ DOMAIN proposals :
               proposals'[id].status = Active
        /\ \A id \in DOMAIN proposals :
               /\ id \in DOMAIN proposals'
               /\ proposals[id].status # Active => proposals'[id].status # Active
               /\ (proposals[id].status = Active /\ proposals'[id].status # Active)
                  => /\ glast'.op = "finalize_proposal"
                     /\ glast'.proposal_id = id
        /\ (glast'.op = "finalize_proposal" /\ glast'.ret = Ok)
           => proposals'[glast'.proposal_id].status \in {Approved, Rejected}
      ]_vars

\* a finalized proposal got a further vote and is still not Active, while the
\* other proposal has a vote and is still Active
C19_Witness ==
    /\ glast.op = "vote_on_proposal" /\ glast.ret = Ok
    /\ proposals[glast.proposal_id].status # Active
    /\ \E p \in DOMAIN proposals :
           proposals[p].status = Active /\ VotesOn(p) # {}

====
